---- MODULE Spec2Model ----
(***************************************************************************)
(* Model of backend/main.py, the INF80057 prototype assistant backend:     *)
(* the module globals KILLED, MOCK and DOCS and the three endpoints        *)
(* health (GET /health), answer (POST /answer) and nxt (POST /next).       *)
(*                                                                         *)
(* Representation.  A Python str the code looks into (the question, a      *)
(* section's text, the answer, the rendered week label) is a sequence of   *)
(* one-character strings, so that lower(), strip(), replace(), split()     *)
(* and the `in` substring test are computed character by character.  A     *)
(* str the code only copies (title, href, loc, a milestone, a prompt, an   *)
(* error detail) is a TLA+ string.  The module is ASCII: the typographic   *)
(* apostrophe U+2019 of the refusal message (main.py line 100) is written  *)
(* as the character "'".  A dict is a record; a key the JSON file may      *)
(* leave out is a field the record may lack (see Get).                     *)
(*                                                                         *)
(* Steps.  A handler reads the globals and its request and writes nothing  *)
(* shared, so one invocation is one step; the steps of concurrent          *)
(* invocations interleave in any order.                                    *)
(***************************************************************************)
EXTENDS Integers, Sequences, FiniteSets, TLC

VARIABLES KILLED, DOCS, MOCK, req, resp, first

vars == <<KILLED, DOCS, MOCK, req, resp, first>>

globals == <<KILLED, DOCS, MOCK>>

(***************************************************************************)
(* Bounds of the model.                                                    *)
(***************************************************************************)
\* the longest corpus (number of documents in seed_docs.json) explored
MaxDocs == 2

\* the longest schedule (number of week records in mock_dates.json) explored
MaxWeeks == 2

(***************************************************************************)
(* Python str and dict operations used by the handlers.                    *)
(***************************************************************************)
\* the characters str.strip() and str.split() treat as whitespace
Whitespace == {" ", "\t", "\n"}

UpperToLower ==
  [c \in {"A","B","C","D","E","F","G","H","I","J","K","L","M",
          "N","O","P","Q","R","S","T","U","V","W","X","Y","Z"} |->
     CASE c = "A" -> "a" [] c = "B" -> "b" [] c = "C" -> "c" [] c = "D" -> "d"
       [] c = "E" -> "e" [] c = "F" -> "f" [] c = "G" -> "g" [] c = "H" -> "h"
       [] c = "I" -> "i" [] c = "J" -> "j" [] c = "K" -> "k" [] c = "L" -> "l"
       [] c = "M" -> "m" [] c = "N" -> "n" [] c = "O" -> "o" [] c = "P" -> "p"
       [] c = "Q" -> "q" [] c = "R" -> "r" [] c = "S" -> "s" [] c = "T" -> "t"
       [] c = "U" -> "u" [] c = "V" -> "v" [] c = "W" -> "w" [] c = "X" -> "x"
       [] c = "Y" -> "y" [] c = "Z" -> "z"]

\* str.lower()
lower(s) ==
  [i \in 1..Len(s) |-> IF s[i] \in DOMAIN UpperToLower THEN UpperToLower[s[i]] ELSE s[i]]

\* str.strip(): drop the leading and the trailing whitespace
strip(s) ==
  LET keep == {i \in 1..Len(s) : s[i] \notin Whitespace}
  IN  IF keep = {} THEN <<>>
      ELSE LET lo == CHOOSE i \in keep : \A j \in keep : i <= j
               hi == CHOOSE i \in keep : \A j \in keep : j <= i
           IN  SubSeq(s, lo, hi)

\* str.replace(old, new) for one-character old and new
replace(s, old, new) ==
  [i \in 1..Len(s) |-> IF s[i] = old THEN new ELSE s[i]]

RECURSIVE split_from(_, _, _)
\* the loop of str.split(): cur is the word being read at position i
split_from(s, i, cur) ==
  IF i > Len(s)
    THEN (IF cur = <<>> THEN <<>> ELSE <<cur>>)
    ELSE IF s[i] \in Whitespace
           THEN (IF cur = <<>> THEN <<>> ELSE <<cur>>) \o split_from(s, i + 1, <<>>)
           ELSE split_from(s, i + 1, Append(cur, s[i]))

\* str.split() with no argument: the maximal runs of non-whitespace, in order
split(s) == split_from(s, 1, <<>>)

\* Python's `sub in s` on two str: sub occurs in s as a contiguous substring
\* (the empty str occurs in every str)
contains(sub, s) ==
  \E i \in 0..(Len(s) - Len(sub)) :
    \A k \in 1..Len(sub) : s[i + k] = sub[k]

\* dict.get(key, default)
Get(d, key, default) == IF key \in DOMAIN d THEN d[key] ELSE default

Digits == <<"0","1","2","3","4","5","6","7","8","9">>

RECURSIVE str_int(_)
\* str(n) of a non-negative int: its decimal digits, most significant first
str_int(n) ==
  IF n < 10 THEN <<Digits[n + 1]>>
  ELSE str_int(n \div 10) \o <<Digits[(n % 10) + 1]>>

(***************************************************************************)
(* Python values a week identifier can be: an int, a str, or None when the *)
(* key is absent or null.                                                  *)
(***************************************************************************)
IntVal(n) == [py |-> "int", i |-> n, s |-> <<>>]

StrVal(t) == [py |-> "str", i |-> 0, s |-> t]

NoneVal == [py |-> "NoneType", i |-> 0, s |-> <<>>]

\* Python's == on two such values: values of different types are not equal
py_eq(a, b) == a.py = b.py /\ a.i = b.i /\ a.s = b.s

\* the text an f-string puts in for {week}
format_value(v) ==
  CASE v.py = "int" -> str_int(v.i)
    [] v.py = "str" -> v.s
    [] OTHER -> <<"N","o","n","e">>

(***************************************************************************)
(* Literals of main.py.                                                    *)
(***************************************************************************)
\* line 74
keywords ==
  << <<"t","a","s","k"," ","1">>,
     <<"w","e","e","k"," ","4">>,
     <<"p","r","o","p","o","s","a","l">>,
     <<"p","l","a","n","n","i","n","g"," ","d","o","c","u","m","e","n","t">>,
     <<"d","u","e">> >>

\* line 86: the shortest question word the overlap pass keeps
MinWordLen == 4

\* lines 69 and 109
ServiceUnavailable == 503

PAUSED_DETAIL == "Assistant paused by staff"

\* line 79: "Task 1 Part 1 is due in Week 4. It includes the Project Proposal
\* and Planning Document."
TASK1_ANSWER ==
  <<"T","a","s","k"," ","1"," ","P","a","r","t"," ","1"," ","i","s"," ","d","u","e"," ","i","n"," ","W","e","e","k"," ","4","."," ","I","t"," ","i","n","c","l","u","d","e","s"," ","t","h","e"," ","P","r","o","j","e","c","t"," ","P","r","o","p","o","s","a","l"," ","a","n","d"," ","P","l","a","n","n","i","n","g"," ","D","o","c","u","m","e","n","t",".">>

TASK1_PROMPT == "Which client constraints affect your scope before Week 4?"

\* line 92: "I can only answer from authorised files."
AUTHORISED_ONLY ==
  <<"I"," ","c","a","n"," ","o","n","l","y"," ","a","n","s","w","e","r"," ","f","r","o","m"," ","a","u","t","h","o","r","i","s","e","d"," ","f","i","l","e","s",".">>

OVERLAP_PROMPT == "What evidence from the assessment guide supports your plan?"

\* line 100: "I can't answer that from the unit's authorised files. Try the
\* Assessment Guide v1.0, Section 1."
REFUSAL_ANSWER ==
  <<"I"," ","c","a","n","'","t"," ","a","n","s","w","e","r"," ","t","h","a","t"," ","f","r","o","m"," ","t","h","e"," ","u","n","i","t","'","s"," ","a","u","t","h","o","r","i","s","e","d"," ","f","i","l","e","s","."," ","T","r","y"," ","t","h","e"," ","A","s","s","e","s","s","m","e","n","t"," ","G","u","i","d","e"," ","v","1",".","0",","," ","S","e","c","t","i","o","n"," ","1",".">>

NO_MILESTONES == "No milestones found for this week."

\* line 118: the text of the f-string before {week}
WEEK_PREFIX == <<"w","e","e","k",":">>

(***************************************************************************)
(* The data the process may have loaded, and the requests it may receive.  *)
(***************************************************************************)
\* the sequences of distinct members of S of length at most n
SeqUpTo(S, n) ==
  {s \in UNION {[1..k -> S] : k \in 0..n} :
     \A a, b \in DOMAIN s : s[a] = s[b] => a = b}

\* documents of seed_docs.json: a section may lack "text" or have an empty
\* one, a document may have no section, and a section's text may be any str,
\* one of the messages of main.py included
DocPool ==
  { [title |-> "Guide", href |-> "/g",
     sections |-> << [loc |-> "p.1", text |-> <<"U","n","i","t"," ","O","V","E","R","V","I","E","W">>],
                     [loc |-> "p.2", text |-> <<"M","a","r","k","i","n","g"," ","r","u","b","r","i","c">>],
                     [loc |-> "p.3", text |-> <<"R","u","b","r","i","c"," ","s","c","o","p","e">>] >>],
    [title |-> "Brief", href |-> "/b",
     sections |-> << [loc |-> "s.1"],
                     [loc |-> "s.2", text |-> <<>>],
                     [loc |-> "s.3", text |-> <<"P","r","o","j","e","c","t"," ","S","c","o","p","e">>],
                     [loc |-> "s.4", text |-> AUTHORISED_ONLY],
                     [loc |-> "s.5", text |-> REFUSAL_ANSWER] >>],
    [title |-> "Stub", href |-> "/s", sections |-> <<>>] }

Corpora == SeqUpTo(DocPool, MaxDocs)

\* week records of mock_dates.json: two records may carry the same week, a
\* record may have no milestone
WeekPool ==
  { [week |-> IntVal(4), milestones |-> <<>>],
    [week |-> IntVal(4), milestones |-> <<"Submit proposal">>],
    [week |-> StrVal(<<"4">>), milestones |-> <<"Read guide", "Form team">>] }

Schedules == {[weeks |-> w] : w \in SeqUpTo(WeekPool, MaxWeeks)}

\* req.question
Questions ==
  { <<>>,
    <<" ","\t">>,
    <<"W","h","e","n"," ","i","s"," ","T","a","s","k"," ","1"," ","d","u","e","?">>,
    <<"w","e","e","k"," ","4"," ","p","l","a","n">>,
    <<"P","R","O","P","O","S","A","L">>,
    <<"P","l","a","n","n","i","n","g"," ","D","o","c","u","m","e","n","t"," ","s","c","o","p","e">>,
    <<"o","v","e","r","d","u","e"," ","r","u","b","r","i","c">>,
    <<" ","R","u","b","r","i","c","?"," ">>,
    <<"S","c","o","p","e","?","o","v","e","r","v","i","e","w">>,
    <<"a","s","d","f"," ","z","z","z","z">>,
    <<"r","u","b"," ","s","c","o">>,
    <<"o","n","l","y","?">>,
    <<"W","h","i","c","h"," ","s","e","c","t","i","o","n">> }

\* req.state.get("week"): None when the state has no "week"
WeekIds == {IntVal(4), StrVal(<<"4">>), IntVal(0), IntVal(120), NoneVal}

(***************************************************************************)
(* What a handler ends in.  reads is the set of data globals (DOCS, MOCK)  *)
(* the handler evaluated before it ended.                                  *)
(***************************************************************************)
Returned(model, body, reads) ==
  [kind |-> "return", model |-> model, body |-> body, reads |-> reads]

\* raise HTTPException(status_code=..., detail=...)
HTTPException(status_code, detail, reads) ==
  [kind |-> "HTTPException", status_code |-> status_code, detail |-> detail,
   reads |-> reads]

\* list index out of range, raised by doc["sections"][0]
IndexError(reads) == [kind |-> "IndexError", reads |-> reads]

(***************************************************************************)
(* GET /health                                                             *)
(***************************************************************************)
health_result ==
  Returned("dict",
           [ok |-> ~KILLED, service |-> "assistant-backend", version |-> "0.1.0"],
           {})

(***************************************************************************)
(* POST /answer                                                            *)
(***************************************************************************)
\* any(k in q for k in keywords)
any_keyword(q) == \E n \in 1..Len(keywords) : contains(keywords[n], q)

\* line 71: req.question.lower().strip()
normalise(question) == strip(lower(question))

\* q_words with the length test off by one (len(w) >= 3)
q_words_off_by_one(q) ==
  SelectSeq(split(replace(q, "?", " ")), LAMBDA w : Len(w) >= MinWordLen - 1)

\* [w for w in q.replace("?", " ").split() if len(w) >= 4]
q_words(q) == SelectSeq(split(replace(q, "?", " ")), LAMBDA w : Len(w) >= MinWordLen)

\* any_word with all() in place of any(): true of an empty word list
all_words(words, text) == \A n \in 1..Len(words) : contains(words[n], text)

\* any(w in text for w in q_words)
any_word(words, text) == \E n \in 1..Len(words) : contains(words[n], text)

\* section_matches testing the text that line 92 would return, default included
section_matches_default(sec, words) ==
  any_word(words, lower(Get(sec, "text", AUTHORISED_ONLY)))

\* the test of line 90 on one section
section_matches(sec, words) == any_word(words, lower(Get(sec, "text", <<>>)))

RECURSIVE overlap_scan_last(_, _, _)
\* overlap_scan without the early return: the last matching section wins
overlap_scan_last(i, j, words) ==
  IF i > Len(DOCS) THEN <<0, 0>>
  ELSE LET sections == Get(DOCS[i], "sections", <<>>)
       IN  IF j > Len(sections) THEN overlap_scan_last(i + 1, 1, words)
           ELSE LET later == overlap_scan_last(i, j + 1, words)
                IN  IF later # <<0, 0>> THEN later
                    ELSE IF section_matches(sections[j], words) THEN <<i, j>>
                    ELSE <<0, 0>>

RECURSIVE overlap_scan(_, _, _)
\* the two nested for loops of lines 87-96, standing at document i and
\* section j: the position <<i, j>> at which the loops return, <<0, 0>> when
\* they run to the end
overlap_scan(i, j, words) ==
  IF i > Len(DOCS) THEN <<0, 0>>
  ELSE LET sections == Get(DOCS[i], "sections", <<>>)
       IN  IF j > Len(sections) THEN overlap_scan(i + 1, 1, words)
           ELSE IF section_matches(sections[j], words) THEN <<i, j>>
           ELSE overlap_scan(i, j + 1, words)

\* lines 76-83
keyword_response ==
  LET doc == DOCS[1]
  IN  IF Len(doc.sections) = 0 THEN IndexError({"DOCS"})
      ELSE LET sec == doc.sections[1]
           IN  Returned("AnswerResponse",
                        [answer |-> TASK1_ANSWER,
                         citations |-> << [title |-> doc.title, href |-> doc.href,
                                           loc |-> sec.loc] >>,
                         socratic_prompts |-> <<TASK1_PROMPT>>,
                         refusal |-> FALSE],
                        {"DOCS"})

\* lines 91-96, for the section at <<i, j>>
overlap_response(i, j) ==
  LET doc == DOCS[i]
      sec == doc.sections[j]
  IN  Returned("AnswerResponse",
               [answer |-> Get(sec, "text", AUTHORISED_ONLY),
                citations |-> << [title |-> doc.title, href |-> doc.href,
                                  loc |-> Get(sec, "loc", "")] >>,
                socratic_prompts |-> <<OVERLAP_PROMPT>>,
                refusal |-> FALSE],
               {"DOCS"})

\* refusal_response with the refusal flag left at False
refusal_response_unflagged ==
  Returned("AnswerResponse",
           [answer |-> REFUSAL_ANSWER, citations |-> <<>>,
            socratic_prompts |-> <<>>, refusal |-> FALSE],
           {"DOCS"})

\* lines 99-104
refusal_response ==
  Returned("AnswerResponse",
           [answer |-> REFUSAL_ANSWER, citations |-> <<>>,
            socratic_prompts |-> <<>>, refusal |-> TRUE],
           {"DOCS"})

\* lines 85-104
overlap_or_refusal(q) ==
  LET at == overlap_scan(1, 1, q_words(q))
  IN  IF at # <<0, 0>> THEN overlap_response(at[1], at[2]) ELSE refusal_response

\* the body of answer(req) for req.question = question
answer_result(question) ==
  IF KILLED THEN HTTPException(ServiceUnavailable, PAUSED_DETAIL, {})
  ELSE LET q == normalise(question)
       IN  IF any_keyword(q) /\ DOCS # <<>> THEN keyword_response
           ELSE overlap_or_refusal(q)

(***************************************************************************)
(* POST /next                                                              *)
(***************************************************************************)
RECURSIVE week_scan_skip_empty(_, _, _)
\* week_scan that breaks only on a record with milestones
week_scan_skip_empty(weeks, n, week) ==
  IF n > Len(weeks) THEN <<>>
  ELSE IF /\ py_eq(Get(weeks[n], "week", NoneVal), week)
          /\ Get(weeks[n], "milestones", <<>>) # <<>>
         THEN Get(weeks[n], "milestones", <<>>)
  ELSE week_scan_skip_empty(weeks, n + 1, week)

RECURSIVE week_scan(_, _, _)
\* the for loop of lines 112-115 from record n on: items when it ends
week_scan(weeks, n, week) ==
  IF n > Len(weeks) THEN <<>>
  ELSE IF py_eq(Get(weeks[n], "week", NoneVal), week)
         THEN Get(weeks[n], "milestones", <<>>)
  ELSE week_scan(weeks, n + 1, week)

\* the response of lines 110-118
checklist_response(weeks, week) ==
  LET found == week_scan(weeks, 1, week)
      items == IF found = <<>> THEN <<NO_MILESTONES>> ELSE found
  IN  Returned("dict",
               [checklist |-> items,
                refs |-> << [title |-> "mock_dates.json",
                             loc |-> WEEK_PREFIX \o format_value(week)] >>],
               {"MOCK"})

\* nxt_result without the kill-switch test
nxt_result_ungated(week) == checklist_response(Get(MOCK, "weeks", <<>>), week)

\* the body of nxt(req) for req.state["week"] = week
nxt_result(week) ==
  IF KILLED THEN HTTPException(ServiceUnavailable, PAUSED_DETAIL, {})
  ELSE checklist_response(Get(MOCK, "weeks", <<>>), week)

(***************************************************************************)
(* The process: module load, then any sequence of requests.  req and resp  *)
(* are the latest request and what its handler ended in; first is the      *)
(* earliest /answer request served and its result.                         *)
(***************************************************************************)
NoRequest == [op |-> "none"]

Init ==
  /\ KILLED \in BOOLEAN
  /\ DOCS \in Corpora
  /\ MOCK \in Schedules
  /\ req = NoRequest
  /\ resp = NoRequest
  /\ first = NoRequest

health ==
  /\ req' = [op |-> "health"]
  /\ resp' = health_result
  /\ UNCHANGED <<globals, first>>

answer ==
  \E question \in Questions :
    /\ req' = [op |-> "answer", question |-> question]
    /\ resp' = answer_result(question)
    /\ first' = IF first = NoRequest
                  THEN [op |-> "answer", question |-> question, resp |-> resp']
                  ELSE first
    /\ UNCHANGED globals

\* nxt filling an empty milestone list in place (items.append on the list
\* held by MOCK) instead of rebinding items
nxt_in_place ==
  \E week \in WeekIds :
    /\ req' = [op |-> "next", week |-> week]
    /\ resp' = nxt_result(week)
    /\ MOCK' = IF KILLED THEN MOCK
               ELSE [weeks |->
                      [n \in DOMAIN MOCK.weeks |->
                         IF /\ py_eq(MOCK.weeks[n].week, week)
                            /\ \A m \in 1..(n - 1) : ~py_eq(MOCK.weeks[m].week, week)
                            /\ MOCK.weeks[n].milestones = <<>>
                           THEN [MOCK.weeks[n] EXCEPT !.milestones = <<NO_MILESTONES>>]
                           ELSE MOCK.weeks[n]]]
    /\ UNCHANGED <<KILLED, DOCS, first>>

nxt ==
  \E week \in WeekIds :
    /\ req' = [op |-> "next", week |-> week]
    /\ resp' = nxt_result(week)
    /\ UNCHANGED <<globals, first>>

Next == health \/ answer \/ nxt

Spec == Init /\ [][Next]_vars

(***************************************************************************)
(* Vocabulary of the properties.  These definitions read the state and     *)
(* state what the specification says of a question and a corpus; they are  *)
(* written from the words of the specification, not from the handlers.     *)
(***************************************************************************)
\* w occurs in text from some position on
OccursIn(w, text) ==
  \E p \in 1..Len(text) :
    p + Len(w) - 1 <= Len(text) /\ SubSeq(text, p, p + Len(w) - 1) = w

\* the characters that end a question word: whitespace and "?"
Separator == Whitespace \cup {"?"}

\* q[a..b] is a whitespace-separated token of q once "?" is read as a space
IsTokenAt(q, a, b) ==
  /\ a <= b
  /\ \A k \in a..b : q[k] \notin Separator
  /\ a = 1 \/ q[a - 1] \in Separator
  /\ b = Len(q) \/ q[b + 1] \in Separator

\* some token of q of at least four characters is a substring of text
LongTokenOccurs(q, text) ==
  \E a, b \in 1..Len(q) :
    /\ b - a + 1 >= 4
    /\ IsTokenAt(q, a, b)
    /\ OccursIn(SubSeq(q, a, b), text)

\* q contains one of the fixed keywords
HasKeyword(q) == \E n \in DOMAIN keywords : OccursIn(keywords[n], q)

\* the sections of the corpus, as <<document, section>> positions
Positions ==
  UNION {{<<i, j>> : j \in 1..Len(DOCS[i].sections)} : i \in 1..Len(DOCS)}

\* document-major, section-minor order
Before(p, r) == p[1] < r[1] \/ (p[1] = r[1] /\ p[2] < r[2])

SectionAt(p) == DOCS[p[1]].sections[p[2]]

\* the text of a section, empty when the section has none
TextAt(p) == IF "text" \in DOMAIN SectionAt(p) THEN SectionAt(p).text ELSE <<>>

\* the section at p holds a long token of q in its lower-cased text
Hit(q, p) == LongTokenOccurs(q, lower(TextAt(p)))

CitationOf(p) ==
  [title |-> DOCS[p[1]].title, href |-> DOCS[p[1]].href, loc |-> SectionAt(p).loc]

\* the refusal result
RefusalResult ==
  [answer |-> REFUSAL_ANSWER, citations |-> <<>>, socratic_prompts |-> <<>>,
   refusal |-> TRUE]

\* the latest request is a question asked with the gate open
AnswerOpen == req.op = "answer" /\ ~KILLED

\* the lower-cased, trimmed question of the latest request
AskedQ == normalise(req.question)

\* the fixed-keyword pass applies to the latest request
KeywordPass == HasKeyword(AskedQ) /\ DOCS # <<>>

\* the latest request is a question that got an AnswerResult
AnswerReturned == req.op = "answer" /\ resp.kind = "return"

\* the latest request got a non-refusal AnswerResult from the fallback pass
FallbackAnswered ==
  AnswerOpen /\ ~KeywordPass /\ resp.kind = "return" /\ ~resp.body.refusal

\* the question of the latest request is empty or whitespace only
BlankQuestion == \A k \in DOMAIN req.question : req.question[k] \in Whitespace

RECURSIVE DecimalValue(_)
\* the number a sequence of decimal digits denotes
DecimalValue(d) ==
  IF d = <<>> THEN 0
  ELSE 10 * DecimalValue(SubSeq(d, 1, Len(d) - 1))
       + (CHOOSE v \in 0..9 : Digits[v + 1] = d[Len(d)])

\* label is the text "week:<id>" for the week identifier id
IsWeekLabel(label, id) ==
  /\ Len(label) >= 5
  /\ SubSeq(label, 1, 5) = <<"w","e","e","k",":">>
  /\ LET shown == SubSeq(label, 6, Len(label))
     IN  IF id.py = "str" THEN shown = id.s
         ELSE IF id.py = "NoneType" THEN shown = <<"N","o","n","e">>
         ELSE /\ shown # <<>>
              /\ \A k \in DOMAIN shown : \E v \in 1..10 : Digits[v] = shown[k]
              /\ Len(shown) > 1 => shown[1] # "0"
              /\ DecimalValue(shown) = id.i

(***************************************************************************)
(* Properties.                                                             *)
(***************************************************************************)
\* C1: with the gate open, a question that contains a fixed keyword and a
\* non-empty corpus give refusal=false, the hard-coded Task 1 / Week 4 answer
\* and exactly one citation: the first document's title and href with its
\* first section's loc.  (Violated: the first document may have no section.)
C1_KeywordCitesFirstSection ==
  (AnswerOpen /\ KeywordPass) =>
     /\ resp.kind = "return"
     /\ resp.body.refusal = FALSE
     /\ resp.body.answer = TASK1_ANSWER
     /\ Len(DOCS[1].sections) >= 1
     /\ resp.body.citations = <<CitationOf(<<1, 1>>)>>

\* C2: when the fixed-keyword pass does not apply and some section holds a
\* question token of length >= 4, the result is that of the FIRST such section
\* in document-major, section-minor order: its raw text as the answer, its
\* document's title/href and its loc as the single citation, refusal=false.
C2_FirstOverlapMatch ==
  (AnswerOpen /\ ~KeywordPass /\ \E p \in Positions : Hit(AskedQ, p)) =>
     \E p \in Positions :
       /\ Hit(AskedQ, p)
       /\ \A r \in Positions : Before(r, p) => ~Hit(AskedQ, r)
       /\ resp.kind = "return"
       /\ resp.body.answer = SectionAt(p).text
       /\ resp.body.citations = <<CitationOf(p)>>
       /\ resp.body.refusal = FALSE

\* C2 witness: a question answered from the first of three matching sections,
\* with a later match in the same document and one in a later document
C2_Witness ==
  /\ AnswerOpen /\ ~KeywordPass /\ resp.kind = "return"
  /\ \E p, r, t \in Positions :
       /\ Hit(AskedQ, p) /\ Hit(AskedQ, r) /\ Hit(AskedQ, t)
       /\ r[1] = p[1] /\ r[2] > p[2]
       /\ t[1] > p[1]
       /\ resp.body.citations = <<CitationOf(p)>>

\* C3: a question with no fixed keyword and no token of length >= 4 in any
\* section's lower-cased text gets refusal=true, citations=[],
\* socratic_prompts=[] and the fixed refusal message.
C3_NoMatchRefuses ==
  (AnswerOpen /\ ~HasKeyword(AskedQ) /\ \A p \in Positions : ~Hit(AskedQ, p)) =>
     /\ resp.kind = "return"
     /\ resp.body = RefusalResult

\* C3 witness: a refusal although a token of three characters of the question
\* occurs in a section
C3_Witness ==
  /\ AnswerOpen /\ ~HasKeyword(AskedQ) /\ resp.kind = "return"
  /\ resp.body = RefusalResult
  /\ \E p \in Positions : \E a, b \in 1..Len(AskedQ) :
       /\ b - a + 1 = 3
       /\ IsTokenAt(AskedQ, a, b)
       /\ OccursIn(SubSeq(AskedQ, a, b), lower(TextAt(p)))

\* C4 as claimed: every AnswerResult has refusal=true iff citations is empty
\* iff the answer is the fixed refusal message, and at most one citation.
\* (Violated: a section whose text is the refusal message can be the answer.)
C4_RefusalIffMessage ==
  AnswerReturned =>
     /\ resp.body.refusal <=> resp.body.citations = <<>>
     /\ resp.body.citations = <<>> <=> resp.body.answer = REFUSAL_ANSWER
     /\ Len(resp.body.citations) <= 1

\* C4 as amended: every AnswerResult has refusal=true iff citations is empty;
\* refusal=true implies the answer is the fixed refusal message; a non-refusal
\* answer equals the refusal message only as the text of the cited section;
\* at most one citation.
C4_RefusalIffNoCitation ==
  AnswerReturned =>
     /\ resp.body.refusal <=> resp.body.citations = <<>>
     /\ resp.body.refusal => resp.body.answer = REFUSAL_ANSWER
     /\ (resp.body.answer = REFUSAL_ANSWER /\ ~resp.body.refusal) =>
          \E p \in Positions :
            resp.body.citations = <<CitationOf(p)>> /\ TextAt(p) = REFUSAL_ANSWER
     /\ Len(resp.body.citations) <= 1

\* C4 witness: a cited, non-refusal result whose answer is the refusal message
C4_Witness ==
  /\ AnswerReturned
  /\ resp.body.answer = REFUSAL_ANSWER
  /\ ~resp.body.refusal
  /\ Len(resp.body.citations) = 1

\* C5: with the gate open, the checklist is the milestones of the FIRST record
\* whose week equals the queried id, later records never consulted; it is the
\* single placeholder when no record matches or that record has no milestone;
\* refs is exactly one entry, mock_dates.json with loc "week:<id>".
C5_FirstWeekRecord ==
  (req.op = "next" /\ ~KILLED) =>
     LET weeks == MOCK.weeks
         same == {n \in DOMAIN weeks : weeks[n].week = req.week}
         earliest == CHOOSE n \in same : \A m \in same : n <= m
         expected == IF same = {} THEN <<NO_MILESTONES>>
                     ELSE IF weeks[earliest].milestones = <<>> THEN <<NO_MILESTONES>>
                     ELSE weeks[earliest].milestones
     IN  /\ resp.kind = "return"
         /\ resp.body.checklist = expected
         /\ Len(resp.body.refs) = 1
         /\ DOMAIN resp.body.refs[1] = {"title", "loc"}
         /\ resp.body.refs[1].title = "mock_dates.json"
         /\ IsWeekLabel(resp.body.refs[1].loc, req.week)

\* C5 witness: the placeholder returned for a week whose first record has no
\* milestone while a later record of the same week has one
C5_Witness ==
  /\ req.op = "next" /\ ~KILLED /\ resp.kind = "return"
  /\ resp.body.checklist = <<NO_MILESTONES>>
  /\ \E n, m \in DOMAIN MOCK.weeks :
       /\ n < m
       /\ \A k \in 1..n : MOCK.weeks[k].week = req.week => k = n
       /\ MOCK.weeks[n].week = req.week /\ MOCK.weeks[n].milestones = <<>>
       /\ MOCK.weeks[m].week = req.week /\ MOCK.weeks[m].milestones # <<>>

\* C6: with the gate closed, submit-question and get-next-checklist fail with
\* ServiceUnavailable ("Assistant paused by staff") before any access to the
\* corpus or the schedule, and health reports ok=false; with the gate open,
\* health reports ok=true and neither operation fails with ServiceUnavailable.
C6_GateRefusesBoth ==
  /\ (KILLED /\ req.op \in {"answer", "next"}) =>
        /\ resp.kind = "HTTPException"
        /\ resp.status_code = 503
        /\ resp.detail = "Assistant paused by staff"
        /\ resp.reads = {}
  /\ req.op = "health" => (resp.kind = "return" /\ resp.body.ok = ~KILLED)
  /\ (~KILLED /\ req.op \in {"answer", "next"}) => resp.kind # "HTTPException"

\* C6 witness: with the gate closed, a checklist request refused after a
\* question was refused
C6_Witness ==
  /\ KILLED
  /\ req.op = "next" /\ resp.kind = "HTTPException"
  /\ first # NoRequest /\ first.resp.kind = "HTTPException"

\* C7: ServiceUnavailable is the only error: with the gate open every
\* submit-question and get-next-checklist invocation returns a result, and no
\* invocation ends in another failure.  (Violated: keyword question, first
\* document without sections.)
C7_OnlyServiceUnavailable ==
  req.op # "none" =>
     /\ resp.kind \in {"return", "HTTPException"}
     /\ ~KILLED => resp.kind = "return"

\* C8: with the gate open, an empty corpus gives the refusal result for every
\* question, keyword questions included, and an empty or whitespace-only
\* question gives the refusal result for every corpus.
C8_EmptyCorpusOrQuestionRefuses ==
  (AnswerOpen /\ (DOCS = <<>> \/ BlankQuestion)) =>
     /\ resp.kind = "return"
     /\ resp.body = RefusalResult

\* C8 witness: a whitespace-only question refused over a corpus that has a
\* section with an empty text
C8_Witness ==
  /\ AnswerOpen /\ BlankQuestion /\ req.question # <<>>
  /\ \E p \in Positions : "text" \in DOMAIN SectionAt(p) /\ SectionAt(p).text = <<>>
  /\ resp.kind = "return" /\ resp.body = RefusalResult

\* C9: no invocation writes the corpus, the schedule or the gate flag, and a
\* submit-question invocation returns what the earliest invocation with the
\* same question returned, whatever ran in between.
C9_ReadOnlyAndRepeatable ==
  [][ /\ KILLED' = KILLED /\ DOCS' = DOCS /\ MOCK' = MOCK
      /\ (req'.op = "answer" /\ first # NoRequest /\ first.question = req'.question)
           => resp' = first.resp ]_vars

\* C9 witness: a checklist served from a schedule with a record without
\* milestones, after a question was answered
C9_Witness ==
  /\ ~KILLED
  /\ first # NoRequest /\ first.resp.kind = "return" /\ ~first.resp.body.refusal
  /\ req.op = "next" /\ resp.kind = "return"
  /\ resp.body.checklist = <<NO_MILESTONES>>
  /\ \E n \in DOMAIN MOCK.weeks :
       MOCK.weeks[n].week = req.week /\ MOCK.weeks[n].milestones = <<>>

\* C10 as claimed: a non-refusal answer of the fallback pass is the non-empty
\* text of the cited section, and "I can only answer from authorised files."
\* is never returned as an answer.  (Violated: a section may have that text.)
C10_NeverAuthorisedOnly ==
  /\ FallbackAnswered =>
       \E p \in Positions :
         /\ TextAt(p) # <<>>
         /\ resp.body.answer = TextAt(p)
         /\ resp.body.citations = <<CitationOf(p)>>
  /\ AnswerReturned => resp.body.answer # AUTHORISED_ONLY

\* C10 as amended: a non-refusal answer of the fallback pass is the non-empty
\* text the cited section has, and "I can only answer from authorised files."
\* is returned only as such a text, never for a section without one.
C10_AnswerIsSectionText ==
  /\ FallbackAnswered =>
       \E p \in Positions :
         /\ "text" \in DOMAIN SectionAt(p)
         /\ SectionAt(p).text # <<>>
         /\ resp.body.answer = SectionAt(p).text
         /\ resp.body.citations = <<CitationOf(p)>>
  /\ (AnswerReturned /\ resp.body.answer = AUTHORISED_ONLY) => FallbackAnswered

\* C10 witness: the fallback pass answers "I can only answer from authorised
\* files." from a section with that text, after a section without text and
\* one with an empty text in the same document
C10_Witness ==
  /\ FallbackAnswered
  /\ resp.body.answer = AUTHORISED_ONLY
  /\ \E p, r, t \in Positions :
       /\ resp.body.citations = <<CitationOf(p)>>
       /\ r[1] = p[1] /\ r[2] < p[2] /\ "text" \notin DOMAIN SectionAt(r)
       /\ t[1] = p[1] /\ t[2] < p[2] /\ "text" \in DOMAIN SectionAt(t)
       /\ TextAt(t) = <<>>

====
